---- MODULE Spec2Model ----
(***************************************************************************)
(* Optimistic mutation + rollback protocol of the claims application.      *)
(*                                                                         *)
(* The React Query cache is modelled for two keys: ['claims'] (the list    *)
(* written by useCreateClaim) and ['claims', c1] (one claim with its       *)
(* items and their attachments, written by the item and attachment hooks). *)
(* A claim detail is reduced to its items, since every updater keeps the   *)
(* other fields ({...old, items: ...}). A third key, ['items'], is the     *)
(* plain item list written by the template hooks of _barron-agency/hooks.  *)
(***************************************************************************)
EXTENDS Integers, Sequences, FiniteSets, TLC

\* ---------------------------------------------------------------- bounds
MaxMuts == 2          \* mutation invocations in one run
MaxClock == 1         \* Date.now() takes the values 0..MaxClock
MaxFiles == 2         \* files in one useAddAttachments batch
MaxRows == 2          \* attachment rows the routes create, rows of the table
MaxRuns == 2          \* runs of the migration script

Muts == 1..MaxMuts

\* ------------------------------------------------------------ identifiers
\* `temp-${Date.now()}`: a temporary claim id made of the clock value alone
TempId(t) == <<"temp", t, 0>>
\* `temp-${Date.now()}-${Math.random()}`: clock value and a random number
TempAttId(t, r) == <<"temp", t, r>>
\* a server-issued id (cuid): never starts with "temp-"
RealId(n) == <<"real", n, 0>>
\* id.startsWith('temp-')
IsTemp(id) == id[1] = "temp"
NoId == <<"none", 0, 0>>
\* `draft-${Date.now()}`: the id of the local draft card of the detail page
DraftId(t) == <<"draft", t, 0>>

\* `${Date.now()}-${Math.random()}`: the id the template's mutationFn gives
\* to the item it returns
ItemId(t, r) == <<"item", t, r>>

\* URL.createObjectURL(file) and a stored file's https URL
BlobUrl(r) == <<"blob", r>>
HttpsUrl(n) == <<"https", n>>
\* url.startsWith('blob:')
IsBlob(url) == url[1] = "blob"

\* ------------------------------------------------------------ cache values
\* queryClient.getQueryData on a key never written: undefined
Absent == [def |-> FALSE, list |-> <<>>]
Some(l) == [def |-> TRUE, list |-> l]
\* JavaScript truthiness of a cached value: undefined is falsy, every array
\* and object (also the empty array) is truthy
Truthy(v) == v.def

Ids(l) == {l[i].id : i \in 1..Len(l)}
Count(l, id) == Cardinality({i \in 1..Len(l) : l[i].id = id})

Map(l, F(_)) == [i \in 1..Len(l) |-> F(l[i])]

\* queryClient.setQueryData(key, value or updater result): an undefined value
\* (an updater that returns undefined) leaves the entry as it is
SetQueryData(cur, new) == IF new.def THEN new ELSE cur

\* ------------------------------------------------ useCreateClaim (['claims'])
\* onMutate updater: [tempClaim, ...(old || [])]
CreateClaimOptimistic(old, tempClaim) ==
  Some(<<tempClaim>> \o (IF Truthy(old) THEN old.list ELSE <<>>))

\* onSuccess updater: the claim whose id is the temporary id becomes newClaim
CreateClaimReconcile(old, tempId, newClaim) ==
  IF ~Truthy(old) THEN Some(<<newClaim>>)
  ELSE Some(Map(old.list, LAMBDA c : IF c.id = tempId THEN newClaim ELSE c))

\* --------------------------------------- item hooks (['claims', claimId])
\* useCreateItem.onSuccess updater: items: [newItem, ...old.items]
CreateItemReconcile(old, newItem) ==
  IF ~Truthy(old) THEN old
  ELSE Some(<<newItem>> \o old.list)

\* useUpdateItem.onMutate updater
UpdateItemOptimistic(old, id, title) ==
  IF ~Truthy(old) THEN old
  ELSE Some(Map(old.list, LAMBDA it : IF it.id = id THEN [it EXCEPT !.title = title] ELSE it))

\* useDeleteItem.onMutate updater
DeleteItemOptimistic(old, id) ==
  IF ~Truthy(old) THEN old
  ELSE Some(SelectSeq(old.list, LAMBDA it : it.id # id))

\* a reorder that leaves every item its order value
OrderKept(orderItems, item) == item.order

\* orderMap.get(item.id) ?? item.order
OrderOf(orderItems, item) ==
  IF \E i \in 1..Len(orderItems) : orderItems[i].id = item.id
  THEN LET i == CHOOSE j \in 1..Len(orderItems) :
                  /\ orderItems[j].id = item.id
                  \* new Map(entries): the last entry of a key wins
                  /\ \A k \in (j + 1)..Len(orderItems) : orderItems[k].id # item.id
       IN orderItems[i].order
  ELSE item.order

RECURSIVE InsertByOrder(_, _)
InsertByOrder(sorted, it) ==
  IF sorted = <<>> THEN <<it>>
  ELSE IF Head(sorted).order <= it.order
       THEN <<Head(sorted)>> \o InsertByOrder(Tail(sorted), it)
       ELSE <<it>> \o sorted

RECURSIVE SortByOrder(_)
\* Array.prototype.sort((a, b) => a.order - b.order): stable
SortByOrder(l) ==
  IF l = <<>> THEN <<>>
  ELSE InsertByOrder(SortByOrder(SubSeq(l, 1, Len(l) - 1)), l[Len(l)])

\* useReorderItems.onMutate updater
ReorderOptimistic(old, orderItems) ==
  IF ~Truthy(old) THEN old
  ELSE Some(SortByOrder(Map(old.list, LAMBDA it : [it EXCEPT !.order = OrderOf(orderItems, it)])))

\* ------------------------------------- attachment hooks (['claims', claimId])
\* useAddAttachments.onMutate updater: the item's attachments followed by the
\* temporary ones
AddAttachmentsOptimistic(old, itemId, tempAttachments) ==
  IF ~Truthy(old) THEN old
  ELSE Some(Map(old.list, LAMBDA it :
         IF it.id = itemId
         THEN [it EXCEPT !.attachments = it.attachments \o tempAttachments]
         ELSE it))

\* useAddAttachments.onSuccess updater: every attachment of the item whose id
\* starts with "temp-" is dropped, then the server's attachments are appended
AddAttachmentsReconcile(old, itemId, result) ==
  IF ~Truthy(old) THEN old
  ELSE Some(Map(old.list, LAMBDA it :
         IF it.id = itemId
         THEN [it EXCEPT !.attachments =
                 SelectSeq(it.attachments, LAMBDA att : ~IsTemp(att.id)) \o result]
         ELSE it))

\* useRemoveAttachment.onMutate updater
RemoveAttachmentOptimistic(old, itemId, attachmentId) ==
  IF ~Truthy(old) THEN old
  ELSE Some(Map(old.list, LAMBDA it :
         IF it.id = itemId
         THEN [it EXCEPT !.attachments =
                 SelectSeq(it.attachments, LAMBDA att : att.id # attachmentId)]
         ELSE it))

\* ------------------------------ template hooks (['items'], a plain Item[])
\* the updaters' (old = []) default
OrEmpty(old) == IF Truthy(old) THEN old.list ELSE <<>>

\* template useCreateItem.onMutate updater: [tempItem, ...old]
TplCreateOptimistic(old, tempItem) == Some(<<tempItem>> \o OrEmpty(old))

\* template useCreateItem / useDuplicateItem onSuccess updater
TplReconcile(old, tempId, newItem) ==
  Some(Map(OrEmpty(old), LAMBDA it : IF it.id = tempId THEN newItem ELSE it))

\* template useDeleteItem.onMutate updater
TplDeleteOptimistic(old, id) == Some(SelectSeq(OrEmpty(old), LAMBDA it : it.id # id))

\* items.findIndex(item => item.id === itemId), 0 when there is none
IndexOf(l, id) ==
  IF \E i \in 1..Len(l) : l[i].id = id
  THEN CHOOSE i \in 1..Len(l) : l[i].id = id /\ \A j \in 1..(i - 1) : l[j].id # id
  ELSE 0

\* {...original, id, title: `${original.title} (Copy)`}
CopyOf(original, id) == [original EXCEPT !.id = id, !.title = @ \o " (Copy)"]

\* template useDuplicateItem.onMutate: the value it writes, computed from the
\* list previousItems that getQueryData returned: the copy goes in after the
\* original; nothing is written when the original is not in the list
TplDuplicateOptimistic(previousItems, id, tempId) ==
  LET items == OrEmpty(previousItems)
      i == IndexOf(items, id)
  IN IF i = 0 THEN Absent
     ELSE Some(SubSeq(items, 1, i) \o <<CopyOf(items[i], tempId)>>
                 \o SubSeq(items, i + 1, Len(items)))

\* template useReorderItems.onMutate: setQueryData(['items'], data.items), the
\* list of the caller as it is
TplReorderOptimistic(old, items) == Some(items)

\* ------------------------------------------------------------------- text
\* A text is a sequence of atoms. An atom is one character, or a literal of
\* the code that no operation of the model takes apart ("claims", "r2.dev").
Digits == {"0", "1", "2", "3", "4", "5", "6", "7", "8", "9"}

\* String.prototype.toLowerCase, for the letters the model uses
ToLowerCase(t) ==
  [i \in 1..Len(t) |->
     CASE t[i] = "J" -> "j" [] t[i] = "P" -> "p" [] t[i] = "G" -> "g" [] OTHER -> t[i]]

\* the positions of the atom c in t
Positions(t, c) == {i \in 1..Len(t) : t[i] = c}

RECURSIVE Split(_, _)
\* t.split(c): the pieces between the occurrences of c
Split(t, c) ==
  IF Positions(t, c) = {} THEN <<t>>
  ELSE LET i == CHOOSE x \in Positions(t, c) : \A y \in Positions(t, c) : x <= y
       IN <<SubSeq(t, 1, i - 1)>> \o Split(SubSeq(t, i + 1, Len(t)), c)

\* array.pop(): the last piece
Pop(pieces) == pieces[Len(pieces)]

\* t.includes(sub)
Includes(t, sub) ==
  \E i \in 0..(Len(t) - Len(sub)) : SubSeq(t, i + 1, i + Len(sub)) = sub

\* t.replace(/\.[^/.]+$/, ""): a last dot that is followed by one atom or
\* more, none of them a dot or a slash, is cut off with what follows it
StripExtension(t) ==
  LET dots == {i \in Positions(t, ".") :
                 /\ i < Len(t)
                 /\ \A j \in (i + 1)..Len(t) : t[j] \notin {".", "/"}}
  IN IF dots = {} THEN t ELSE SubSeq(t, 1, (CHOOSE i \in dots : TRUE) - 1)

\* ---------------------------------------------------------------- storage
\* /^\d{13,}-/ of isR2File
StampDigits == 13

\* String(Date.now()): thirteen digits in this era, the last one is the
\* clock of the model
NowText(t) ==
  [i \in 1..StampDigits |-> IF i = StampDigits THEN (IF t = 0 THEN "0" ELSE "1") ELSE "1"]

\* /^\d{13,}-/.test(filename)
StartsWithStamp(filename) ==
  \E n \in StampDigits..(Len(filename) - 1) :
    /\ \A i \in 1..n : filename[i] \in Digits
    /\ filename[n + 1] = "-"

\* isR2File(publicId): four path segments, the first is claims, the file
\* name starts with a timestamp
isR2File(publicId) ==
  LET segments == Split(publicId, "/")
  IN IF Len(segments) # 4 \/ segments[1] # <<"claims">> THEN FALSE
     ELSE StartsWithStamp(segments[4])

IMAGE_EXTENSIONS ==
  { <<"j", "p", "g">>, <<"j", "p", "e", "g">>, <<"p", "n", "g">>, <<"g", "i", "f">>,
    <<"w", "e", "b", "p">>, <<"h", "e", "i", "c">>, <<"h", "e", "i", "f">> }
IMAGE_MIMETYPES ==
  { <<"image/jpeg">>, <<"image/png">>, <<"image/gif">>, <<"image/webp">>,
    <<"image/heic">>, <<"image/heif">> }

\* isImageFile(mimeType, filename) of lib/cloudinary
isImageFile(mimeType, filename) ==
  IF ToLowerCase(mimeType) \in IMAGE_MIMETYPES THEN TRUE
  ELSE LET ext == ToLowerCase(Pop(Split(filename, ".")))
       IN IF ext # <<>> THEN ext \in IMAGE_EXTENSIONS ELSE FALSE

\* process.env.R2_PUBLIC_DOMAIN and the name of the Cloudinary account
R2_PUBLIC_DOMAIN == <<"https://", "pub", ".", "r2.dev">>
NEW_CLOUD_NAME == <<"n", "e", "w">>

\* getPublicUrl(key)
getPublicUrl(key) == R2_PUBLIC_DOMAIN \o <<"/">> \o key

\* `claims/${claimId}/${itemId}`
Folder(claimId, itemId) == <<"claims", "/", claimId, "/", itemId>>

\* the R2 key of the POST route:
\* `claims/${claimId}/${itemId}/${Date.now()}-${randomId}.${ext}`
R2Key(claimId, itemId, t, randomId, name) ==
  LET popped == Pop(Split(name, "."))
      ext == IF popped = <<>> THEN <<"bin">> ELSE popped
  IN Folder(claimId, itemId) \o <<"/">> \o NowText(t) \o <<"-">> \o randomId \o <<".">> \o ext

\* the file name the POST route hands to Cloudinary:
\* `${Date.now()}-${randomId}-${baseFilename}`
CloudinaryFilename(t, randomId, name) ==
  NowText(t) \o <<"-">> \o randomId \o <<"-">> \o StripExtension(name)

\* result.public_id of upload_stream({ folder, public_id }): Cloudinary puts
\* the asset into the folder under the given name
CloudinaryPublicId(folder, filename) == folder \o <<"/">> \o filename

\* result.secure_url of an upload to the account cloud
CloudinaryUrl(cloud, publicId) ==
  <<"https://", "res.cloudinary.com", "/">> \o cloud \o <<"/", "image/upload", "/">>
    \o publicId \o <<".", "j", "p", "g">>

\* ------------------------------------------------------------------ state
VARIABLES
  cache,        \* the query cache: "list" is ['claims'], "claim" is ['claims', c1]
  srv,          \* the database behind the API: claims, the items of c1, next id
  muts,         \* one record per mutation invocation (variables, context, position)
  q,            \* the fetch of each query: idle or fetching
  otherFetch,   \* the id of a useClaim fetch in flight for a claim other than c1
  ui,           \* the mounted page, the claim id of its URL, and the state of
                \* the claim detail page: draftItem, editingItemId, savingItemId
  now,          \* Date.now()
  rnd,          \* source of Math.random() and URL.createObjectURL values
  toasts,       \* the toast list of the mounted ToastProvider
  revoked,      \* URL.revokeObjectURL calls: blob url -> number of calls
  store,        \* the attachment table and the file storages behind the routes
  mig           \* the run of scripts/migrate-to-cloudinary

vars == <<cache, srv, muts, q, otherFetch, ui, now, rnd, toasts, revoked, store, mig>>

Keys == {"list", "claim", "items"}

\* a query key matches every key that starts with it: ['claims'] matches
\* ['claims', c1]
Matches(k, x) == x = k \/ (k = "list" /\ x = "claim")

\* retry: 1 of the QueryClient's default mutation options
MutationRetry == 1
\* MAX_RETRIES of uploadFileWithRetry
MAX_RETRIES == 3

C1Id == RealId(1)
Claim(id) == [id |-> id]
Attachment(id, url) == [id |-> id, url |-> url]
Item(id, title, order, atts) ==
  [id |-> id, title |-> title, order |-> order, attachments |-> atts]

\* the claim c1 as stored at the start: two items, the first with one file
InitItems ==
  << Item(RealId(11), "t0", 0, <<Attachment(RealId(21), HttpsUrl(21))>>),
     Item(RealId(12), "t0", 1, <<>>) >>

\* a page as it mounts: no draft item, no item edited, none being saved
Page(page, routeId) ==
  [page |-> page, routeId |-> routeId, draft |-> <<>>, editing |-> NoId, saving |-> NoId]

\* the world behind the attachment routes: the rows of the attachment table,
\* the keys held by the R2 bucket, the assets held by Cloudinary accounts,
\* the next row id, and of the last request: what it was, the delete it
\* sent to a storage backend (and whether that threw), how its
\* prisma.attachment.delete ended, and the status of its response
NoStore ==
  [rows |-> <<>>, r2 |-> {}, cloud |-> {}, next |-> 1,
   req |-> <<>>, call |-> <<>>, db |-> "none", status |-> 0]

\* scripts/migrate-to-cloudinary before its first run. pc: off, run or done;
\* dry: --dry-run; list: the attachments findMany returned; i: how many of
\* them are processed; total, migrated, skipped, failed: the MigrationResult;
\* downloads, uploads, updates: the ids the run has downloaded, uploaded and
\* updated in the database; runs: the runs started; moved: the ids whose row
\* an earlier or this run has updated; prev: the summary of the run before
NoMig ==
  [pc |-> "off", dry |-> FALSE, list |-> <<>>, i |-> 0,
   total |-> 0, migrated |-> 0, skipped |-> 0, failed |-> 0,
   downloads |-> {}, uploads |-> {}, updates |-> {},
   runs |-> 0, moved |-> {}, prev |-> <<>>]

\* a mutation not invoked yet. wasEditing is editingItemId === id as the
\* calling handler sees it. alone (not program state) records that since
\* mutate() no other mutation and no read was in flight on the hook's key.
NoMut ==
  [ kind |-> "none", via |-> "none", pc |-> "idle",
    id |-> NoId, att |-> NoId, title |-> "", order |-> <<>>, files |-> 0,
    snapshot |-> Absent, temps |-> <<>>, removed |-> <<>>,
    failureCount |-> 0, attempt |-> 0, resp |-> "none", result |-> <<>>,
    mounted |-> FALSE, wasEditing |-> FALSE, alone |-> FALSE ]

Init ==
  /\ \E hasClaim \in BOOLEAN :
       /\ srv = [ claims |-> IF hasClaim THEN <<Claim(C1Id)>> ELSE <<>>,
                  items |-> IF hasClaim THEN InitItems ELSE <<>>,
                  next |-> 100 ]
       /\ \E l \in {Absent, Some(srv.claims)},
             c \in {Absent} \cup (IF hasClaim THEN {Some(InitItems)} ELSE {}) :
            cache = [list |-> l, claim |-> c, items |-> Absent]
       /\ ui \in {Page("list", NoId), Page("new", NoId)}
                   \cup (IF hasClaim THEN {Page("detail", C1Id)} ELSE {})
  /\ muts = [m \in Muts |-> NoMut]
  /\ q = [k \in Keys |-> [st |-> "idle", stale |-> FALSE]]
  /\ otherFetch = NoId
  /\ now = 0
  /\ rnd = 0
  /\ toasts = <<>>
  /\ revoked = <<>>
  /\ store = NoStore
  /\ mig = NoMig

\* the hooks of _barron-agency/hooks/useItems.ts
IsTemplate(kind) == kind \in {"tplCreate", "tplDelete", "tplDuplicate", "tplReorder"}

\* the cache key a hook reads and writes
Key(kind) ==
  IF kind = "createClaim" THEN "list"
  ELSE IF IsTemplate(kind) THEN "items"
  ELSE "claim"

InFlight(m) == muts[m].pc \notin {"idle", "done"}

\* ToastRegistry is mounted (globalAddToast is set): NewClaimPage always, the
\* claim detail page only in its loaded branch, ClaimsPage never
ToastMounted ==
  \/ ui.page = "new"
  \/ ui.page = "detail" /\ ui.routeId = C1Id /\ cache.claim.def

\* toast.error / toast.success: dropped when globalAddToast is null
Toast(list, type, message) ==
  IF ToastMounted THEN Append(list, [type |-> type, message |-> message]) ELSE list

\* ------------------------------------------------------------- navigation
\* a page change unmounts the page: its mutation observers and its
\* ToastProvider (with the toast list) go away
Unmounted == [m \in Muts |-> [muts[m] EXCEPT !.mounted = FALSE]]

OpenClaimsPage ==
  /\ ui.page # "list"
  /\ ui' = Page("list", NoId)
  /\ muts' = Unmounted
  /\ toasts' = <<>>
  /\ UNCHANGED <<cache, srv, q, otherFetch, now, rnd, revoked, store, mig>>

OpenNewClaimPage ==
  /\ ui.page # "new"
  /\ ui' = Page("new", NoId)
  /\ muts' = Unmounted
  /\ toasts' = <<>>
  /\ UNCHANGED <<cache, srv, q, otherFetch, now, rnd, revoked, store, mig>>

\* ClaimsPage renders every cached claim as a ClaimListCard whose href is
\* `/claims/${claim.id}`; a click opens the claim detail page for that id
ClickClaimCard(i) ==
  /\ ui.page = "list"
  /\ cache.list.def
  /\ i \in 1..Len(cache.list.list)
  /\ ui' = Page("detail", cache.list.list[i].id)
  /\ muts' = Unmounted
  /\ toasts' = <<>>
  /\ UNCHANGED <<cache, srv, q, otherFetch, now, rnd, revoked, store, mig>>

\* the clock advances
Tick ==
  /\ now < MaxClock
  /\ now' = now + 1
  /\ UNCHANGED <<cache, srv, muts, q, otherFetch, ui, rnd, toasts, revoked, store, mig>>

\* ---------------------------------------------------------------- queries
\* a mutation in flight on key k is no longer alone on it
NotAlone(ms, k) ==
  [m \in Muts |-> IF ms[m].pc \notin {"idle", "done"} /\ Key(ms[m].kind) = k
                  THEN [ms[m] EXCEPT !.alone = FALSE] ELSE ms[m]]

\* useClaims: fetch('/api/claims')
StartClaimsQuery ==
  /\ ui.page = "list"
  /\ q.list.st = "idle"
  /\ q' = [q EXCEPT !.list = [st |-> "fetching", stale |-> FALSE]]
  /\ muts' = NotAlone(muts, "list")
  /\ UNCHANGED <<cache, srv, otherFetch, ui, now, rnd, toasts, revoked, store, mig>>

\* useClaim(claimId): fetch(`/api/claims/${claimId}`), enabled: !!claimId,
\* for the claim id of the page's URL
StartClaimQuery ==
  /\ ui.page = "detail"
  /\ ui.routeId # NoId
  /\ IF ui.routeId = C1Id
     THEN /\ q.claim.st = "idle"
          /\ q' = [q EXCEPT !.claim = [st |-> "fetching", stale |-> FALSE]]
          /\ muts' = NotAlone(muts, "claim")
          /\ UNCHANGED otherFetch
     ELSE /\ otherFetch = NoId
          /\ otherFetch' = ui.routeId
          /\ UNCHANGED <<q, muts, store, mig>>
  /\ UNCHANGED <<cache, srv, ui, now, rnd, toasts, revoked, store, mig>>

\* what GET returns for a key: the database as it is when the server answers
\* (nothing in the repository fetches ['items'])
ServerValue(k) ==
  CASE k = "list" -> Some(srv.claims)
    [] k = "claim" -> Some(srv.items)
    [] OTHER -> Absent

\* a rollback that resets the key to the data of the server instead of
\* restoring the snapshot of the invocation
RollbackToServer(k, snapshot) == ServerValue(k)

\* onError of every hook, the value of key k afterwards:
\*   if (context?.previous...) setQueryData(key, context.previous...)
Rollback(k, snapshot) == IF Truthy(snapshot) THEN snapshot ELSE cache[k]

\* the fetch resolves and its data is written into the cache. stale (not
\* program state) records that an optimistic write was made to the key after
\* the fetch had started.
QueryComplete(k) ==
  /\ q[k].st = "fetching"
  /\ cache' = [cache EXCEPT ![k] = ServerValue(k)]
  /\ q' = [q EXCEPT ![k] = [st |-> "idle", stale |-> FALSE]]
  /\ UNCHANGED <<srv, muts, otherFetch, ui, now, rnd, toasts, revoked, store, mig>>

\* the fetch of a claim other than c1 is answered (its cache entry is not
\* part of the model)
OtherQueryComplete ==
  /\ otherFetch # NoId
  /\ otherFetch' = NoId
  /\ UNCHANGED <<cache, srv, muts, q, ui, now, rnd, toasts, revoked, store, mig>>

\* queryClient.cancelQueries({ queryKey }): every fetch whose key starts with
\* queryKey is cancelled and its result will be discarded
CancelQueries(qs, k) ==
  [x \in Keys |-> IF Matches(k, x) THEN [st |-> "idle", stale |-> FALSE] ELSE qs[x]]

\* a write that reaches every entry whose key starts with the given key, as
\* cancelQueries matches its queries
CacheWriteByPrefix(k, v) ==
  [x \in Keys |-> IF Matches(k, x) THEN SetQueryData(cache[x], v) ELSE cache[x]]

\* the cache after queryClient.setQueryData(key, v): the entry of exactly
\* this key is written
CacheWrite(k, v) == [cache EXCEPT ![k] = SetQueryData(cache[k], v)]

\* ------------------------------------------------- mutations: invocation
\* mutate(variables) runs the hook's onMutate up to its first await:
\*   await queryClient.cancelQueries({ queryKey })
\* The rest of onMutate runs when that promise has resolved (OnMutateApply).
\* Mutation records are taken in order.
Invoke(m, kind, via, fields) ==
  /\ muts[m].pc = "idle"
  /\ IF m = 1 THEN TRUE ELSE muts[m - 1].pc # "idle"
  /\ muts' = [NotAlone(muts, Key(kind)) EXCEPT ![m] =
       [ fields EXCEPT !.kind = kind, !.via = via, !.pc = "onMutate",
                       !.mounted = TRUE,
                       !.alone = /\ q[Key(kind)].st = "idle"
                                 /\ \A o \in Muts \ {m} :
                                      ~(InFlight(o) /\ Key(muts[o].kind) = Key(kind)) ]]
  /\ q' = CancelQueries(q, Key(kind))
  /\ otherFetch' = IF Key(kind) = "list" THEN NoId ELSE otherFetch
  /\ UNCHANGED <<cache, srv, now, rnd, toasts, revoked, store, mig>>

\* the submit control of a page is disabled while the page's own create
\* is pending (ClaimForm isSubmitting, NewClaimPage isCreating)
Submitting(via) ==
  \E o \in Muts : InFlight(o) /\ muts[o].via = via /\ muts[o].mounted

\* ClaimsPage.handleCreateClaim / NewClaimPage.handleCreate
StartCreateClaim(m, via) ==
  /\ \/ via = "ClaimsPage" /\ ui.page = "list"
     \/ via = "NewClaimPage" /\ ui.page = "new"
  /\ ~Submitting(via)
  /\ Invoke(m, "createClaim", via, NoMut)
  /\ UNCHANGED ui

\* the claim detail page shows its items only in its loaded branch
DetailLoaded == ui.page = "detail" /\ ui.routeId = C1Id /\ cache.claim.def

NewTitles == {"t1"}

\* ClaimDetailPage.handleSave for an existing item (the title is not empty):
\* setSavingItemId(id), then updateItemMutation.mutateAsync
StartUpdateItem(m, id, title) ==
  /\ DetailLoaded
  /\ id \in Ids(cache.claim.list)
  /\ title \in NewTitles
  /\ Invoke(m, "updateItem", "ClaimDetailPage", [NoMut EXCEPT !.id = id, !.title = title])
  /\ ui' = [ui EXCEPT !.saving = id]

\* ClaimDetailPage.handleDelete
StartDeleteItem(m, id) ==
  /\ DetailLoaded
  /\ id \in Ids(cache.claim.list)
  /\ Invoke(m, "deleteItem", "ClaimDetailPage",
       [NoMut EXCEPT !.id = id, !.wasEditing = (ui.editing = id)])
  /\ UNCHANGED ui

\* the orders a drag can produce: the displayed items in another order
Orderings(l) ==
  {p \in [1..Len(l) -> Ids(l)] : \A i, j \in 1..Len(l) : i # j => p[i] # p[j]}

\* ClaimDetailPage.handleReorder: order is the index in the new order
StartReorderItems(m, newOrder) ==
  /\ DetailLoaded
  /\ Len(cache.claim.list) > 0
  /\ newOrder \in Orderings(cache.claim.list)
  /\ newOrder # [i \in 1..Len(cache.claim.list) |-> cache.claim.list[i].id]
  /\ Invoke(m, "reorderItems", "ClaimDetailPage",
       [NoMut EXCEPT !.order = [i \in 1..Len(newOrder) |-> [id |-> newOrder[i], order |-> i - 1]]])
  /\ UNCHANGED ui

\* useAddAttachments().mutate for files dropped on an item's FileGallery
StartAddAttachments(m, itemId, n) ==
  /\ DetailLoaded
  /\ itemId \in Ids(cache.claim.list)
  /\ n \in 1..MaxFiles
  /\ Invoke(m, "addAttachments", "hook", [NoMut EXCEPT !.id = itemId, !.files = n])
  /\ UNCHANGED ui

AttachmentsOf(l, itemId) ==
  IF \E i \in 1..Len(l) : l[i].id = itemId
  THEN l[CHOOSE i \in 1..Len(l) : l[i].id = itemId /\ \A j \in 1..(i - 1) : l[j].id # itemId].attachments
  ELSE <<>>

\* useRemoveAttachment().mutate from FileGallery.handleConfirmDelete; the
\* remove button is not rendered for an attachment whose id starts with temp-
StartRemoveAttachment(m, itemId, attachmentId) ==
  /\ DetailLoaded
  /\ itemId \in Ids(cache.claim.list)
  /\ attachmentId \in Ids(AttachmentsOf(cache.claim.list, itemId))
  /\ ~IsTemp(attachmentId)
  /\ Invoke(m, "removeAttachment", "hook", [NoMut EXCEPT !.id = itemId, !.att = attachmentId])
  /\ UNCHANGED ui

\* ------------------------------------------------- the template hooks' callers
\* useCreateItem().mutate({ title })
StartTplCreate(m, title) ==
  /\ title \in NewTitles
  /\ Invoke(m, "tplCreate", "template", [NoMut EXCEPT !.title = title])
  /\ UNCHANGED ui

\* useDeleteItem().mutate({ id }) for an item of the list
StartTplDelete(m, id) ==
  /\ id \in Ids(OrEmpty(cache.items))
  /\ Invoke(m, "tplDelete", "template", [NoMut EXCEPT !.id = id])
  /\ UNCHANGED ui

\* useDuplicateItem().mutate(itemId) for an item of the list
StartTplDuplicate(m, id) ==
  /\ id \in Ids(OrEmpty(cache.items))
  /\ Invoke(m, "tplDuplicate", "template", [NoMut EXCEPT !.id = id])
  /\ UNCHANGED ui

\* the lists a drag of the shown list can produce
Reorderings(l) ==
  {p \in [1..Len(l) -> {l[i] : i \in 1..Len(l)}] :
     /\ \A i, j \in 1..Len(l) : i # j => p[i].id # p[j].id
     /\ p # l}

\* useReorderItems().mutate({ items }): the list as the caller shows it, in
\* another order
StartTplReorder(m, items) ==
  /\ items \in Reorderings(OrEmpty(cache.items))
  /\ Invoke(m, "tplReorder", "template", [NoMut EXCEPT !.order = items])
  /\ UNCHANGED ui

\* ------------------------------------------ the draft card of the detail page
\* ClaimDetailPage.handleNewItem: a local draft at the top of the displayed
\* list, unless one exists (the Add Item button is disabled then)
HandleNewItem ==
  /\ DetailLoaded
  /\ ui.draft = <<>>
  /\ ui' = [ui EXCEPT !.draft = <<[id |-> DraftId(now), title |-> ""]>>,
                      !.editing = DraftId(now)]
  /\ UNCHANGED <<cache, srv, muts, q, otherFetch, now, rnd, toasts, revoked, store, mig>>

\* the ids of displayItems: the draft, then the cached items
DisplayedIds == Ids(ui.draft) \cup (IF cache.claim.def THEN Ids(cache.claim.list) ELSE {})

\* ClaimDetailPage.handleEdit
HandleEdit(id) ==
  /\ DetailLoaded
  /\ id \in DisplayedIds
  /\ ui.editing # id
  /\ ui' = [ui EXCEPT !.editing = id]
  /\ UNCHANGED <<cache, srv, muts, q, otherFetch, now, rnd, toasts, revoked, store, mig>>

\* ClaimDetailPage.handleCancel: a draft is dropped, an item leaves edit mode
HandleCancel(id) ==
  /\ DetailLoaded
  /\ id \in DisplayedIds
  /\ ui' = IF ui.draft # <<>> /\ ui.draft[1].id = id
           THEN [ui EXCEPT !.draft = <<>>, !.editing = NoId]
           ELSE [ui EXCEPT !.editing = NoId]
  /\ ui' # ui
  /\ UNCHANGED <<cache, srv, muts, q, otherFetch, now, rnd, toasts, revoked, store, mig>>

\* the titles entered into the draft card
DraftTitles == {"t1", "t2"}

\* ClaimDetailPage.handleSave for the draft (the title is not empty):
\* setSavingItemId(id), the draft takes the submitted content, then
\* createItemMutation.mutateAsync. useCreateItem has no onMutate: the
\* executor calls mutationFn, which sends the POST.
StartCreateItem(m, title) ==
  /\ DetailLoaded
  /\ ui.draft # <<>>
  /\ title \in DraftTitles
  /\ muts[m].pc = "idle"
  /\ IF m = 1 THEN TRUE ELSE muts[m - 1].pc # "idle"
  /\ muts' = [NotAlone(muts, "claim") EXCEPT ![m] =
       [ NoMut EXCEPT !.kind = "createItem", !.via = "ClaimDetailPage",
                      !.pc = "inflight", !.attempt = 1, !.mounted = TRUE,
                      !.id = ui.draft[1].id, !.title = title ]]
  /\ ui' = [ui EXCEPT !.draft = <<[ui.draft[1] EXCEPT !.title = title]>>,
                      !.saving = ui.draft[1].id]
  /\ UNCHANGED <<cache, srv, q, otherFetch, now, rnd, toasts, revoked, store, mig>>

\* --------------------------------------------------- mutations: onMutate
\* data.files.map(file => ({ id: `temp-${Date.now()}-${Math.random()}`,
\*                           url: URL.createObjectURL(file), ... }))
TempAttachments(n) == [i \in 1..n |-> Attachment(TempAttId(now, rnd + i), BlobUrl(rnd + i))]

\* previousClaim?.items.find(i => i.id === itemId)?.attachments.find(a => a.id === attachmentId)
FindAttachment(snapshot, itemId, attachmentId) ==
  IF ~Truthy(snapshot) THEN <<>>
  ELSE LET found == SelectSeq(AttachmentsOf(snapshot.list, itemId), LAMBDA a : a.id = attachmentId)
       IN IF found = <<>> THEN <<>> ELSE <<Head(found)>>

\* the temporary entities onMutate creates
TempsOf(mr) ==
  CASE mr.kind = "createClaim" -> <<Claim(TempId(now))>>
    [] mr.kind = "addAttachments" -> TempAttachments(mr.files)
    [] mr.kind = "tplCreate" -> <<Item(TempId(now), mr.title, 0, <<>>)>>
    [] mr.kind = "tplDuplicate" ->
         LET items == OrEmpty(cache.items)
             i == IndexOf(items, mr.id)
         IN IF i = 0 THEN <<>> ELSE <<CopyOf(items[i], TempId(now))>>
    [] OTHER -> <<>>

\* the value the onMutate updater of the hook returns for the cached value old
Optimistic(mr, old, temps) ==
  CASE mr.kind = "createClaim" -> CreateClaimOptimistic(old, temps[1])
    [] mr.kind = "updateItem" -> UpdateItemOptimistic(old, mr.id, mr.title)
    [] mr.kind = "deleteItem" -> DeleteItemOptimistic(old, mr.id)
    [] mr.kind = "reorderItems" -> ReorderOptimistic(old, mr.order)
    [] mr.kind = "addAttachments" -> AddAttachmentsOptimistic(old, mr.id, temps)
    [] mr.kind = "removeAttachment" -> RemoveAttachmentOptimistic(old, mr.id, mr.att)
    [] mr.kind = "tplCreate" -> TplCreateOptimistic(old, temps[1])
    [] mr.kind = "tplDelete" -> TplDeleteOptimistic(old, mr.id)
    [] mr.kind = "tplDuplicate" -> TplDuplicateOptimistic(old, mr.id, TempId(now))
    [] mr.kind = "tplReorder" -> TplReorderOptimistic(old, mr.order)

\* a snapshot that holds the data of the server instead of the cached value
SnapshotOfServer(k) == ServerValue(k)

\* the value getQueryData returns for the snapshot of onMutate
Snapshot(k) == cache[k]

\* the ids in the URL and the body of the request mutationFn sends
RequestOf(mr) ==
  CASE mr.kind = "createClaim" -> {}
    [] mr.kind = "createItem" -> {C1Id}
    [] mr.kind = "updateItem" -> {C1Id, mr.id}
    [] mr.kind = "deleteItem" -> {C1Id, mr.id}
    [] mr.kind = "reorderItems" -> {C1Id} \cup Ids(mr.order)
    [] mr.kind = "addAttachments" -> {C1Id, mr.id}
    [] mr.kind = "removeAttachment" -> {C1Id, mr.id, mr.att}
    [] OTHER -> {}

\* the ids carried by the requests that are on their way to the API
RequestIds ==
  UNION {RequestOf(muts[m]) : m \in {x \in Muts : muts[x].pc = "inflight"}}
    \cup (IF q.claim.st = "fetching" THEN {C1Id} ELSE {})
    \cup (IF otherFetch # NoId THEN {otherFetch} ELSE {})

\* onMutate after its await: getQueryData (the snapshot), the temporary
\* entities, setQueryData (the optimistic write), return of the context; the
\* executor then calls mutationFn, which sends its (first) request.
\* Continuations run in the order in which their awaits were reached.
OnMutateApply(m) ==
  LET mr == muts[m]
      k == Key(mr.kind)
      temps == TempsOf(mr)
      new == Optimistic(mr, cache[k], temps)
  IN /\ mr.pc = "onMutate"
     /\ \A o \in 1..(m - 1) : muts[o].pc # "onMutate"
     /\ cache' = CacheWrite(k, new)
     /\ muts' = [muts EXCEPT ![m] =
          [mr EXCEPT !.pc = "inflight", !.attempt = 1,
                     !.snapshot = Snapshot(k), !.temps = temps,
                     !.removed = IF mr.kind = "removeAttachment"
                                 THEN FindAttachment(Snapshot(k), mr.id, mr.att) ELSE <<>>]]
     /\ rnd' = IF mr.kind = "addAttachments" THEN rnd + mr.files ELSE rnd
     /\ q' = [q EXCEPT ![k].stale = @ \/ (q[k].st = "fetching" /\ new.def)]
     /\ UNCHANGED <<srv, otherFetch, ui, now, toasts, revoked, store, mig>>

\* ------------------------------------------------------------ the server
\* the request can be carried out: the rows it names exist (otherwise the
\* route answers 404, or Prisma throws and the route answers 500)
ServerCan(mr) ==
  CASE mr.kind \in {"createClaim", "createItem"} -> TRUE
    [] mr.kind \in {"updateItem", "deleteItem", "addAttachments"} -> mr.id \in Ids(srv.items)
    [] mr.kind = "reorderItems" -> Ids(mr.order) \subseteq Ids(srv.items)
    [] mr.kind = "removeAttachment" -> mr.att \in Ids(AttachmentsOf(srv.items, mr.id))

\* the database after the route has carried the request out
ServerApply(mr) ==
  CASE mr.kind = "createClaim" ->
         [srv EXCEPT !.claims = <<Claim(RealId(srv.next))>> \o @, !.next = @ + 1]
    [] mr.kind = "createItem" ->
         \* every item of the claim moves down, the new one is created at order 0
         [srv EXCEPT !.items = <<Item(RealId(srv.next), mr.title, 0, <<>>)>>
                                 \o Map(@, LAMBDA it : [it EXCEPT !.order = @ + 1]),
                     !.next = @ + 1]
    [] mr.kind = "updateItem" ->
         [srv EXCEPT !.items = UpdateItemOptimistic(Some(@), mr.id, mr.title).list]
    [] mr.kind = "deleteItem" ->
         [srv EXCEPT !.items = DeleteItemOptimistic(Some(@), mr.id).list]
    [] mr.kind = "reorderItems" ->
         [srv EXCEPT !.items = ReorderOptimistic(Some(@), mr.order).list]
    [] mr.kind = "addAttachments" ->
         [srv EXCEPT !.items = AddAttachmentsOptimistic(Some(@), mr.id,
                                 <<Attachment(RealId(srv.next), HttpsUrl(srv.next))>>).list,
                     !.next = @ + 1]
    [] mr.kind = "removeAttachment" ->
         [srv EXCEPT !.items = RemoveAttachmentOptimistic(Some(@), mr.id, mr.att).list]

\* the entity the route returns with a 2xx answer
ServerResult(mr) ==
  CASE mr.kind = "createClaim" -> <<Claim(RealId(srv.next))>>
    [] mr.kind = "createItem" -> <<Item(RealId(srv.next), mr.title, 0, <<>>)>>
    [] mr.kind = "addAttachments" -> <<Attachment(RealId(srv.next), HttpsUrl(srv.next))>>
    [] OTHER -> <<>>

\* the answers of the API: 2xx, 5xx ("err"), and for an upload 4xx ("err4")
\* (the template hooks send no request)
Answers(mr) ==
  CASE mr.kind = "addAttachments" -> {"ok", "err", "err4"}
    [] IsTemplate(mr.kind) -> {}
    [] OTHER -> {"ok", "err"}

\* the server handles the request of m and answers it; nothing obliges it to
ServerHandle(m, r) ==
  LET mr == muts[m]
  IN /\ mr.pc = "inflight"
     /\ r \in Answers(mr)
     /\ r = "ok" => ServerCan(mr)
     /\ srv' = IF r = "ok" THEN ServerApply(mr) ELSE srv
     /\ muts' = [muts EXCEPT ![m].pc = "responded", ![m].resp = r,
                             ![m].result = IF r = "ok" THEN @ \o ServerResult(mr) ELSE @]
     /\ UNCHANGED <<cache, q, otherFetch, ui, now, rnd, toasts, revoked, store, mig>>

\* the mutationFn of a template hook after its simulatedDelay: it answers by
\* itself. useDuplicateItem reads the original from the cache as it is now
\* and throws when it is not there.
TemplateResolve(m) ==
  LET mr == muts[m]
      items == OrEmpty(cache.items)
      i == IndexOf(items, mr.id)
      id == ItemId(now, rnd + 1)
  IN /\ mr.pc = "inflight"
     /\ IsTemplate(mr.kind)
     /\ CASE mr.kind = "tplCreate" ->
               /\ muts' = [muts EXCEPT ![m].pc = "responded", ![m].resp = "ok",
                                       ![m].result = <<Item(id, mr.title, 0, <<>>)>>]
               /\ rnd' = rnd + 1
          [] mr.kind = "tplDuplicate" /\ i # 0 ->
               /\ muts' = [muts EXCEPT ![m].pc = "responded", ![m].resp = "ok",
                                       ![m].result = <<CopyOf(items[i], id)>>]
               /\ rnd' = rnd + 1
          [] mr.kind = "tplDuplicate" /\ i = 0 ->
               /\ muts' = [muts EXCEPT ![m].pc = "responded", ![m].resp = "err"]
               /\ UNCHANGED rnd
          [] OTHER ->
               /\ muts' = [muts EXCEPT ![m].pc = "responded", ![m].resp = "ok"]
               /\ UNCHANGED rnd
     /\ UNCHANGED <<cache, srv, q, otherFetch, ui, now, toasts, revoked, store, mig>>

\* ------------------------------------- useAddAttachments.mutationFn steps
\* AbortSignal.timeout(UPLOAD_TIMEOUT) aborts the fetch of an upload that has
\* not been answered; the request itself is taken as lost
UploadTimeout(m) ==
  /\ muts[m].kind = "addAttachments"
  /\ muts[m].pc = "inflight"
  /\ muts' = [muts EXCEPT ![m].pc = "responded", ![m].resp = "timeout"]
  /\ UNCHANGED <<cache, srv, q, otherFetch, ui, now, rnd, toasts, revoked, store, mig>>

\* a loop that goes on for as long as the attempts fail
LoopUnbounded(attempt) == TRUE

\* for (let attempt = 1; attempt <= MAX_RETRIES; attempt++): after the
\* attempt of this number the loop has another round
LoopGoesOn(attempt) == attempt < MAX_RETRIES

\* uploadFileWithRetry: after a 5xx answer or a thrown fetch, and while
\* attempt < MAX_RETRIES, wait and fetch again
UploadRetry(m) ==
  /\ muts[m].kind = "addAttachments"
  /\ muts[m].pc = "responded"
  /\ muts[m].resp \in {"err", "timeout"}
  /\ LoopGoesOn(muts[m].attempt)
  /\ muts' = [muts EXCEPT ![m].pc = "inflight", ![m].attempt = @ + 1, ![m].resp = "none"]
  /\ UNCHANGED <<cache, srv, q, otherFetch, ui, now, rnd, toasts, revoked, store, mig>>

\* for (const file of data.files): the next file of the batch is uploaded
UploadNext(m) ==
  /\ muts[m].kind = "addAttachments"
  /\ muts[m].pc = "responded"
  /\ muts[m].resp = "ok"
  /\ Len(muts[m].result) < muts[m].files
  /\ muts' = [muts EXCEPT ![m].pc = "inflight", ![m].attempt = 1, ![m].resp = "none"]
  /\ UNCHANGED <<cache, srv, q, otherFetch, ui, now, rnd, toasts, revoked, store, mig>>

\* an executor that takes every answer for a rejection
AnyAnswerRejects(mr) == mr.pc = "responded"

\* mutationFn has thrown
Rejected(mr) ==
  /\ mr.pc = "responded"
  /\ \/ mr.resp = "err4"
     \/ mr.resp \in {"err", "timeout"}
        /\ (mr.kind = "addAttachments" => mr.attempt = MAX_RETRIES)

\* mutationFn has returned
Resolved(mr) ==
  /\ mr.pc = "responded"
  /\ mr.resp = "ok"
  /\ mr.kind = "addAttachments" => Len(mr.result) = mr.files

\* the executor runs mutationFn again after a rejection (retry: 1), which
\* sends its first request again
RetryMutation(m) ==
  /\ Rejected(muts[m])
  /\ muts[m].failureCount < MutationRetry
  /\ muts' = [muts EXCEPT ![m].pc = "inflight", ![m].failureCount = @ + 1,
                          ![m].attempt = 1, ![m].resp = "none", ![m].result = <<>>]
  /\ UNCHANGED <<cache, srv, q, otherFetch, ui, now, rnd, toasts, revoked, store, mig>>

\* ------------------------------------------- mutations: onSuccess/onError
RECURSIVE RevokeAll(_, _)
\* atts.forEach(att => { if (att.url.startsWith('blob:')) URL.revokeObjectURL(att.url) })
RevokeAll(rev, atts) ==
  IF atts = <<>> THEN rev
  ELSE LET u == Head(atts).url
           r == IF ~IsBlob(u) THEN rev
                ELSE IF u \in DOMAIN rev THEN [rev EXCEPT ![u] = @ + 1]
                ELSE rev @@ (u :> 1)
       IN RevokeAll(r, Tail(atts))

\* a release that forgets the error path of an upload
ReleasedOnSuccessOnly(mr) ==
  CASE mr.kind = "addAttachments" /\ mr.resp = "ok" -> mr.temps
    [] mr.kind = "removeAttachment" -> mr.removed
    [] OTHER -> <<>>

\* the blob URLs the hook releases when it settles: onSuccess and onError of
\* useAddAttachments, onSettled of useRemoveAttachment
Released(mr) ==
  CASE mr.kind = "addAttachments" -> mr.temps
    [] mr.kind = "removeAttachment" -> mr.removed
    [] OTHER -> <<>>

\* the value the onSuccess updater of the hook returns (hooks without an
\* onSuccess write nothing)
Reconciled(mr, old) ==
  CASE mr.kind = "createClaim" -> CreateClaimReconcile(old, mr.temps[1].id, mr.result[1])
    [] mr.kind = "createItem" -> CreateItemReconcile(old, mr.result[1])
    [] mr.kind = "addAttachments" -> AddAttachmentsReconcile(old, mr.id, mr.result)
    [] mr.kind = "tplCreate" -> TplReconcile(old, mr.temps[1].id, mr.result[1])
    [] mr.kind = "tplDuplicate" /\ mr.temps # <<>> ->
         TplReconcile(old, mr.temps[1].id, mr.result[1])
    [] OTHER -> old

\* the toast of the calling handler after a success / after a failure;
\* ClaimsPage.handleCreateClaim and the attachment hooks have none
SuccessMessage(mr) ==
  CASE mr.via = "NewClaimPage" -> <<"Claim created">>
    [] mr.via = "ClaimDetailPage" /\ mr.kind = "createItem" -> <<"Item created">>
    [] mr.via = "ClaimDetailPage" /\ mr.kind = "updateItem" -> <<"Item saved">>
    [] mr.via = "ClaimDetailPage" /\ mr.kind = "deleteItem" -> <<"Item deleted">>
    [] OTHER -> <<>>

ErrorMessage(mr) ==
  CASE mr.via = "NewClaimPage" -> <<"Failed to create claim">>
    [] mr.via = "ClaimDetailPage" /\ mr.kind = "createItem" -> <<"Failed to create item">>
    [] mr.via = "ClaimDetailPage" /\ mr.kind = "updateItem" -> <<"Failed to save item">>
    [] mr.via = "ClaimDetailPage" /\ mr.kind = "deleteItem" -> <<"Failed to delete item">>
    [] mr.via = "ClaimDetailPage" /\ mr.kind = "reorderItems" -> <<"Failed to update order">>
    [] OTHER -> <<>>

\* a handler whose failure path drops the draft like its success path
AfterHandlerDropsDraft(mr, ok) ==
  IF ~(mr.mounted /\ mr.via = "ClaimDetailPage") THEN ui
  ELSE IF mr.kind \in {"createItem", "updateItem"}
       THEN [ui EXCEPT !.draft = <<>>, !.editing = NoId, !.saving = NoId]
       ELSE ui

\* the state of the claim detail page after the continuation of the handler
\* that awaited mutateAsync: handleSave clears savingItemId and, after a
\* success, the edit mode (and the draft, for a create); handleDelete clears
\* the edit mode of the item it deleted. The setters of a page that is no
\* longer mounted have no effect.
AfterHandler(mr, ok) ==
  IF ~(mr.mounted /\ mr.via = "ClaimDetailPage") THEN ui
  ELSE CASE mr.kind = "createItem" ->
              IF ok THEN [ui EXCEPT !.draft = <<>>, !.editing = NoId, !.saving = NoId]
              ELSE [ui EXCEPT !.saving = NoId]
         [] mr.kind = "updateItem" ->
              IF ok THEN [ui EXCEPT !.editing = NoId, !.saving = NoId]
              ELSE [ui EXCEPT !.saving = NoId]
         [] mr.kind = "deleteItem" ->
              IF ok /\ mr.wasEditing THEN [ui EXCEPT !.editing = NoId] ELSE ui
         [] OTHER -> ui

\* the record of a settled mutation: its context is dropped, the temporary
\* entities it had created stay on record
Settled(mr, resp) ==
  [NoMut EXCEPT !.kind = mr.kind, !.pc = "done", !.resp = resp, !.temps = mr.temps]

\* mutationFn resolved: the hook's onSuccess (and onSettled), then the
\* continuation of the calling handler
OnSuccess(m) ==
  LET mr == muts[m]
      k == Key(mr.kind)
      msg == SuccessMessage(mr)
  IN /\ Resolved(mr)
     /\ cache' = CacheWrite(k, Reconciled(mr, cache[k]))
     /\ revoked' = RevokeAll(revoked, Released(mr))
     /\ IF mr.via = "NewClaimPage"
        THEN \* handleCreate resumes after mutateAsync, also when its page is
             \* gone: toast.success, then router.replace(`/claims/${result.id}`)
             /\ ui' = Page("detail", mr.result[1].id)
             /\ toasts' = <<>>
             /\ muts' = [Unmounted EXCEPT ![m] = Settled(mr, "ok")]
        ELSE /\ ui' = AfterHandler(mr, TRUE)
             /\ toasts' = IF msg = <<>> THEN toasts ELSE Toast(toasts, "success", msg[1])
             /\ muts' = [muts EXCEPT ![m] = Settled(mr, "ok")]
     /\ UNCHANGED <<srv, q, otherFetch, now, rnd, store, mig>>

\* mutationFn rejected and no retry is left: the hook's onError (and
\* onSettled), then the catch block of the calling handler. useCreateItem has
\* no onError and no context: its failure writes nothing.
OnError(m) ==
  LET mr == muts[m]
      k == Key(mr.kind)
      msg == ErrorMessage(mr)
  IN /\ Rejected(mr)
     /\ mr.failureCount >= MutationRetry
     /\ cache' = CacheWrite(k, Rollback(k, mr.snapshot))
     /\ revoked' = RevokeAll(revoked, Released(mr))
     /\ toasts' = IF msg = <<>> THEN toasts ELSE Toast(toasts, "error", msg[1])
     /\ muts' = [muts EXCEPT ![m] = Settled(mr, "err")]
     /\ ui' = AfterHandler(mr, FALSE)
     /\ UNCHANGED <<srv, q, otherFetch, now, rnd, store, mig>>

\* ------------------------------------------------- the attachment routes
\* the items the routes know, each with the claim it belongs to
StoreItems == [i1 |-> "c1", i2 |-> "c2"]

\* the claim id and the item id in the URL of a request: an item with its
\* claim, or with another claim
UrlIds == {<<"c1", "i1">>, <<"c2", "i2">>, <<"c1", "i2">>}

\* the files posted to the route; big: file.size > MAX_FILE_SIZE
Files ==
  { [name |-> <<"a", ".", "j", "p", "g">>, type |-> <<"image/jpeg">>, big |-> FALSE],
    [name |-> <<"a", ".", "J", "P", "G">>, type |-> <<>>, big |-> FALSE],
    [name |-> <<"a", ".", "p", "d", "f">>, type |-> <<"application/pdf">>, big |-> FALSE],
    [name |-> <<"a">>, type |-> <<"application/pdf">>, big |-> FALSE],
    [name |-> <<"a", ".", "p", "d", "f">>, type |-> <<"application/pdf">>, big |-> TRUE] }

\* Math.random().toString(36).substring(2, 10)
RandomIds == {<<"k">>}

AttachmentId(n) == <<"att", n>>

\* the row prisma.attachment.create stores
Row(id, itemId, file, url, mimeType, publicId) ==
  [id |-> id, itemId |-> itemId, filename |-> file.name, url |-> url,
   mimeType |-> mimeType, publicId |-> publicId]

\* POST /api/claims/[id]/items/[itemId]/attachments. fails names the call
\* that throws: "storage" (the upload), "db" (prisma.attachment.create) or
\* "none"
PostAttachment(claimId, itemId, file, randomId, fails) ==
  LET id == AttachmentId(store.next)
      key == R2Key(claimId, itemId, now, randomId, file.name)
      publicId == CloudinaryPublicId(Folder(claimId, itemId),
                                     CloudinaryFilename(now, randomId, file.name))
      asset == [cloud |-> NEW_CLOUD_NAME, publicId |-> publicId]
      got == [store EXCEPT !.req = <<[route |-> "POST"]>>, !.call = <<>>, !.db = "none"]
  IN /\ store.next <= MaxRows
     /\ Cardinality(store.r2) + Cardinality(store.cloud) < MaxRows
     /\ store' =
          IF itemId \notin DOMAIN StoreItems \/ StoreItems[itemId] # claimId
          THEN [got EXCEPT !.status = 404]
          ELSE IF file.big THEN [got EXCEPT !.status = 400]
          ELSE IF fails = "storage" THEN [got EXCEPT !.status = 500]
          ELSE IF isImageFile(file.type, file.name)
          THEN IF fails = "db"
               THEN [got EXCEPT !.cloud = @ \cup {asset}, !.status = 500]
               ELSE [got EXCEPT !.cloud = @ \cup {asset},
                                !.rows = Append(@, Row(id, itemId, file,
                                            CloudinaryUrl(NEW_CLOUD_NAME, publicId),
                                            <<"image/jpeg">>, publicId)),
                                !.next = @ + 1, !.status = 201]
          ELSE IF fails = "db"
               THEN [got EXCEPT !.r2 = @ \cup {key}, !.status = 500]
               ELSE [got EXCEPT !.r2 = @ \cup {key},
                                !.rows = Append(@, Row(id, itemId, file, getPublicUrl(key),
                                                       file.type, key)),
                                !.next = @ + 1, !.status = 201]
     /\ UNCHANGED <<cache, srv, muts, q, otherFetch, ui, now, rnd, toasts, revoked, mig>>

\* prisma.attachment.findFirst({ where: { id, itemId, item: { claimId } } })
FindRow(claimId, itemId, attachmentId) ==
  SelectSeq(store.rows, LAMBDA r :
    /\ r.id = attachmentId
    /\ r.itemId = itemId
    /\ r.itemId \in DOMAIN StoreItems
    /\ StoreItems[r.itemId] = claimId)

\* isCloudinaryUrl(url) of lib/cloudinary
isCloudinaryUrl(url) ==
  Includes(url, <<"cloudinary.com">>) \/ Includes(url, <<"res.cloudinary.com">>)

\* The repository holds the DELETE route twice. "byKey" is
\* attachments/[attachmentId]/route.ts, which picks the backend with
\* isR2File(attachment.publicId); "byUrl" is the copy that picks it with
\* isCloudinaryUrl(attachment.url).
Variants == {"byKey", "byUrl"}

BackendOf(variant, attachment) ==
  IF variant = "byKey"
  THEN (IF isR2File(attachment.publicId) THEN "r2" ELSE "cloudinary")
  ELSE (IF isCloudinaryUrl(attachment.url) THEN "cloudinary" ELSE "r2")

\* a route without the inner try/catch: a throw of the storage delete ends
\* the request
StorageThrowPropagates(storageFails) == storageFails

\* the throw of the storage delete ends the request: never, the inner
\* try/catch logs it and the route goes on
StorageThrowEnds(storageFails) == FALSE

\* DELETE /api/claims/[id]/items/[itemId]/attachments/[attachmentId].
\* storageFails: the storage delete throws; dbFails: prisma.attachment.delete
\* throws
DeleteAttachment(variant, claimId, itemId, attachmentId, storageFails, dbFails) ==
  LET found == FindRow(claimId, itemId, attachmentId)
      attachment == found[1]
      backend == BackendOf(variant, attachment)
      got == [store EXCEPT !.req = <<[route |-> "DELETE", variant |-> variant,
                                      claimId |-> claimId, itemId |-> itemId,
                                      attachmentId |-> attachmentId]>>,
                           !.call = <<>>, !.db = "none"]
      sent == [got EXCEPT !.call = <<[backend |-> backend, key |-> attachment.publicId,
                                      threw |-> storageFails]>>]
      stored == IF storageFails THEN sent
                ELSE IF backend = "r2"
                THEN [sent EXCEPT !.r2 = @ \ {attachment.publicId}]
                ELSE [sent EXCEPT !.cloud = @ \ {[cloud |-> NEW_CLOUD_NAME,
                                                  publicId |-> attachment.publicId]}]
  IN /\ store' =
          IF found = <<>> THEN [got EXCEPT !.status = 404]
          ELSE IF StorageThrowEnds(storageFails) THEN [stored EXCEPT !.status = 500]
          ELSE IF dbFails THEN [stored EXCEPT !.db = "threw", !.status = 500]
          ELSE [stored EXCEPT !.rows = SelectSeq(@, LAMBDA r : r.id # attachmentId),
                              !.db = "ok", !.status = 200]
     /\ UNCHANGED <<cache, srv, muts, q, otherFetch, ui, now, rnd, toasts, revoked, mig>>

\* ----------------------------------------- scripts/migrate-to-cloudinary
SKIP_CLOUD_NAMES == {<<"debqautsy">>}

\* a check that never finds a URL on the new account
isNewCloudinaryUrlNever(url) == FALSE

\* isNewCloudinaryUrl(url)
isNewCloudinaryUrl(url) == Includes(url, <<"res.cloudinary.com", "/">> \o NEW_CLOUD_NAME)

\* isOldCloudinaryUrl(url)
isOldCloudinaryUrl(url) ==
  \E name \in SKIP_CLOUD_NAMES : Includes(url, <<"res.cloudinary.com", "/">> \o name)

\* isImageFile(mimeType) of the script
isImageMime(mimeType) == ToLowerCase(mimeType) \in IMAGE_MIMETYPES

\* extractFilename(url, originalFilename): the last segment of the URL's
\* path without its extension, or else the original name without it
extractFilename(url, originalFilename) ==
  LET nameWithoutExt == StripExtension(Pop(Split(url, "/")))
  IN IF nameWithoutExt # <<>> THEN nameWithoutExt ELSE StripExtension(originalFilename)

\* migrateAttachment returns { success: true, skipped: true }
Skips(a) ==
  \/ isNewCloudinaryUrl(a.url)
  \/ isOldCloudinaryUrl(a.url)
  \/ ~isImageMime(a.mimeType)

\* a script that takes no notice of --dry-run
DryRunIgnored(dry) == FALSE

\* if (DRY_RUN) { ...; return { success: true } }
DryRunReturns(dry) == dry

\* migrate() starts: the result is zeroed, every attachment is fetched
MigStart(dry) ==
  /\ mig.pc \in {"off", "done"}
  /\ mig.runs < MaxRuns
  /\ mig' = [mig EXCEPT !.pc = IF Len(store.rows) = 0 THEN "done" ELSE "run",
                         !.dry = dry, !.list = store.rows, !.i = 0,
                         !.total = Len(store.rows),
                         !.migrated = 0, !.skipped = 0, !.failed = 0,
                         !.downloads = {}, !.uploads = {}, !.updates = {},
                         !.runs = @ + 1,
                         !.prev = IF mig.pc = "off" THEN <<>>
                                  ELSE <<[dry |-> mig.dry, failed |-> mig.failed]>>]
  /\ UNCHANGED <<cache, srv, muts, q, otherFetch, ui, now, rnd, toasts, revoked, store>>

\* one round of the loop of migrate(): migrateAttachment(attachments[i]) and
\* the count of its result. fails names the call that throws: "download",
\* "upload", "db" (prisma.attachment.update) or "none"
MigStep(fails) ==
  LET a == mig.list[mig.i + 1]
      folder == Folder(StoreItems[a.itemId], a.itemId)
      publicId == CloudinaryPublicId(folder, extractFilename(a.url, a.filename))
      next == [mig EXCEPT !.i = @ + 1,
                          !.pc = IF mig.i + 1 = mig.total THEN "done" ELSE "run"]
      asset == [cloud |-> NEW_CLOUD_NAME, publicId |-> publicId]
      updated == [j \in 1..Len(store.rows) |->
                    IF store.rows[j].id = a.id
                    THEN [store.rows[j] EXCEPT !.url = CloudinaryUrl(NEW_CLOUD_NAME, publicId),
                                               !.publicId = publicId,
                                               !.mimeType = <<"image/jpeg">>]
                    ELSE store.rows[j]]
  IN /\ mig.pc = "run"
     /\ IF Skips(a)
        THEN /\ fails = "none"
             /\ mig' = [next EXCEPT !.skipped = @ + 1]
             /\ UNCHANGED store
        ELSE IF DryRunReturns(mig.dry)
        THEN /\ fails = "none"
             /\ mig' = [next EXCEPT !.migrated = @ + 1]
             /\ UNCHANGED store
        ELSE CASE fails = "download" ->
                    /\ mig' = [next EXCEPT !.failed = @ + 1]
                    /\ UNCHANGED store
               [] fails = "upload" ->
                    /\ mig' = [next EXCEPT !.failed = @ + 1, !.downloads = @ \cup {a.id}]
                    /\ UNCHANGED store
               [] fails = "db" ->
                    /\ mig' = [next EXCEPT !.failed = @ + 1, !.downloads = @ \cup {a.id},
                                            !.uploads = @ \cup {a.id}]
                    /\ store' = [store EXCEPT !.cloud = @ \cup {asset}]
               [] fails = "none" ->
                    /\ mig' = [next EXCEPT !.migrated = @ + 1, !.downloads = @ \cup {a.id},
                                            !.uploads = @ \cup {a.id},
                                            !.updates = @ \cup {a.id},
                                            !.moved = @ \cup {a.id}]
                    /\ store' = [store EXCEPT !.cloud = @ \cup {asset}, !.rows = updated]
     /\ UNCHANGED <<cache, srv, muts, q, otherFetch, ui, now, rnd, toasts, revoked>>

\* ------------------------------------------------------------ the system
Items == {RealId(11), RealId(12)}

\* the handlers that invoke useCreateClaim
CreateStep(m) ==
  \E via \in {"ClaimsPage", "NewClaimPage"} : StartCreateClaim(m, via)

\* the handlers of the claim detail page and of its file galleries
\* (batches of up to maxFiles files)
DetailStep(m, maxFiles) ==
  \/ \E id \in Items, t \in NewTitles : StartUpdateItem(m, id, t)
  \/ \E id \in Items : StartDeleteItem(m, id)
  \/ \E o \in Orderings(cache.claim.list) : StartReorderItems(m, o)
  \/ \E id \in Items, n \in 1..maxFiles : StartAddAttachments(m, id, n)
  \/ \E id \in Items : \E a \in Ids(AttachmentsOf(cache.claim.list, id)) :
       StartRemoveAttachment(m, id, a)

\* the steps every mutation goes through once invoked
LifeStep(m) ==
  \/ OnMutateApply(m)
  \/ \E r \in {"ok", "err", "err4"} : ServerHandle(m, r)
  \/ RetryMutation(m)
  \/ OnSuccess(m)
  \/ OnError(m)

\* the steps inside useAddAttachments.mutationFn
UploadStep(m) ==
  \/ UploadTimeout(m)
  \/ UploadRetry(m)

\* overlapping creations from the two pages that create claims, over a
\* loaded list
InitList ==
  /\ Init
  /\ cache.list.def

NextList ==
  \/ OpenClaimsPage
  \/ OpenNewClaimPage
  \/ Tick
  \/ \E m \in Muts : CreateStep(m) \/ LifeStep(m)

SpecList == InitList /\ [][NextList]_vars

\* the loaded claim detail page: its items and their attachments
InitDetail ==
  /\ Init
  /\ ui.page = "detail"
  /\ cache.list.def
  /\ cache.claim.def

NextDetail ==
  \/ StartClaimQuery
  \/ QueryComplete("claim")
  \/ \E m \in Muts : DetailStep(m, 1) \/ LifeStep(m) \/ UploadStep(m)

\* overlapping mutations on the claim's key, single-file uploads
SpecDetail == InitDetail /\ [][NextDetail]_vars

\* the handlers of the draft card and of the cards' edit mode
DraftStep(m) ==
  \/ HandleNewItem
  \/ \E id \in {RealId(11)} \cup {DraftId(t) : t \in 0..MaxClock} : HandleEdit(id) \/ HandleCancel(id)
  \/ \E t \in DraftTitles : StartCreateItem(m, t)

NextDraft ==
  \/ OpenClaimsPage
  \/ Tick
  \/ StartClaimQuery
  \/ QueryComplete("claim")
  \/ \E m \in Muts :
       \/ DraftStep(m)
       \/ LifeStep(m)
       \/ \E id \in Items, t \in NewTitles : StartUpdateItem(m, id, t)

\* the claim detail page with its draft card: items are created and saved
SpecDraft == InitDetail /\ [][NextDraft]_vars

NextReorder ==
  \/ HandleNewItem
  \/ StartClaimQuery
  \/ QueryComplete("claim")
  \/ \E m \in Muts :
       \/ StartCreateItem(m, "t1")
       \/ \E o \in Orderings(cache.claim.list) : StartReorderItems(m, o)
       \/ LifeStep(m)

\* the claim detail page: items are created and the list is dragged into
\* another order
SpecReorder == InitDetail /\ [][NextReorder]_vars

\* the list of the template is there, no page of the application is open
InitTemplate ==
  /\ srv = [claims |-> <<>>, items |-> <<>>, next |-> 100]
  /\ cache = [list |-> Absent, claim |-> Absent, items |-> Some(InitItems)]
  /\ ui = Page("list", NoId)
  /\ muts = [m \in Muts |-> NoMut]
  /\ q = [k \in Keys |-> [st |-> "idle", stale |-> FALSE]]
  /\ otherFetch = NoId
  /\ now = 0
  /\ rnd = 0
  /\ toasts = <<>>
  /\ revoked = <<>>
  /\ store = NoStore
  /\ mig = NoMig

NextTemplate ==
  \/ Tick
  \/ \E m \in Muts :
       \/ \E t \in NewTitles : StartTplCreate(m, t)
       \/ \E id \in Items : StartTplDelete(m, id) \/ StartTplDuplicate(m, id)
       \/ \E o \in Reorderings(OrEmpty(cache.items)) : StartTplReorder(m, o)
       \/ OnMutateApply(m)
       \/ TemplateResolve(m)
       \/ RetryMutation(m)
       \/ OnSuccess(m)
       \/ OnError(m)

\* the template hooks on ['items']: overlapping mutations of one list
SpecTemplate == InitTemplate /\ [][NextTemplate]_vars

\* no browser: requests reach the attachment routes
NextStorage ==
  \E u \in UrlIds :
    \/ \E file \in Files, randomId \in RandomIds, fails \in {"none", "storage", "db"} :
         PostAttachment(u[1], u[2], file, randomId, fails)
    \/ \E variant \in Variants, n \in 1..MaxRows, storageFails \in BOOLEAN, dbFails \in BOOLEAN :
         DeleteAttachment(variant, u[1], u[2], AttachmentId(n), storageFails, dbFails)

InitStorage ==
  /\ Init
  /\ srv.claims = <<>>
  /\ ~cache.list.def
  /\ ui.page = "list"

\* the attachment routes with their storage backends
SpecStorage == InitStorage /\ [][NextStorage]_vars

\* the attachments in the table when the script is run: images and a
\* document on R2, images on the new account, on the developer's old account
\* and on another old account
StoredFiles ==
  LET key == R2Key("c1", "i1", 0, <<"k">>, <<"a", ".", "p", "n", "g">>)
      doc == R2Key("c1", "i1", 0, <<"k">>, <<"a", ".", "p", "d", "f">>)
      pid == CloudinaryPublicId(Folder("c1", "i1"), <<"b">>)
      OnCloud(account) ==
        [url |-> CloudinaryUrl(account, pid), mimeType |-> <<"image/jpeg">>,
         publicId |-> pid, account |-> account]
  IN { [url |-> getPublicUrl(key), mimeType |-> <<"image/png">>,
        publicId |-> key, account |-> <<>>],
       [url |-> getPublicUrl(doc), mimeType |-> <<"application/pdf">>,
        publicId |-> doc, account |-> <<>>],
       OnCloud(NEW_CLOUD_NAME), OnCloud(<<"debqautsy">>), OnCloud(<<"o", "l", "d">>) }

\* where a stored file lies: its R2 keys, its Cloudinary assets
Holding(f) ==
  IF f.account = <<>> THEN [r2 |-> {f.publicId}, cloud |-> {}]
  ELSE [r2 |-> {}, cloud |-> {[cloud |-> f.account, publicId |-> f.publicId]}]

InitMigrate ==
  /\ srv = [claims |-> <<>>, items |-> <<>>, next |-> 100]
  /\ cache = [list |-> Absent, claim |-> Absent, items |-> Absent]
  /\ ui = Page("list", NoId)
  /\ muts = [m \in Muts |-> NoMut]
  /\ q = [k \in Keys |-> [st |-> "idle", stale |-> FALSE]]
  /\ otherFetch = NoId
  /\ now = 0
  /\ rnd = 0
  /\ toasts = <<>>
  /\ revoked = <<>>
  /\ mig = NoMig
  /\ \E n \in 0..MaxRows : \E fs \in [1..n -> StoredFiles] :
       store = [NoStore EXCEPT
                  !.rows = [j \in 1..n |->
                              [id |-> AttachmentId(j), itemId |-> "i1",
                               filename |-> <<"a", ".", "p", "n", "g">>,
                               url |-> fs[j].url, mimeType |-> fs[j].mimeType,
                               publicId |-> fs[j].publicId]],
                  !.next = n + 1,
                  !.r2 = UNION {Holding(fs[j]).r2 : j \in 1..n},
                  !.cloud = UNION {Holding(fs[j]).cloud : j \in 1..n}]

NextMigrate ==
  \/ \E dry \in BOOLEAN : MigStart(dry)
  \/ \E fails \in {"none", "download", "upload", "db"} : MigStep(fails)

\* the migration script, run up to MaxRuns times over a table of attachments
SpecMigrate == InitMigrate /\ [][NextMigrate]_vars

NextKeys ==
  \/ OpenClaimsPage
  \/ OpenNewClaimPage
  \/ \E i \in 1..(MaxMuts + 1) : ClickClaimCard(i)
  \/ \E m \in Muts :
       \/ CreateStep(m)
       \/ \E id \in Items, t \in NewTitles : StartUpdateItem(m, id, t)
       \/ \E id \in Items : StartDeleteItem(m, id)
       \/ \E id \in Items : StartAddAttachments(m, id, 1)
       \/ LifeStep(m)

\* mutations on the two keys that overlap: claims are created while items
\* of the claim are changed
SpecKeys == InitDetail /\ [][NextKeys]_vars

\* one mutation at a time from any page, with batches of several files
NextOne ==
  \/ OpenClaimsPage
  \/ OpenNewClaimPage
  \/ \E i \in 1..(MaxMuts + 1) : ClickClaimCard(i)
  \/ StartClaimsQuery
  \/ StartClaimQuery
  \/ \E k \in Keys : QueryComplete(k)
  \/ OtherQueryComplete
  \/ CreateStep(1) \/ DetailStep(1, MaxFiles) \/ LifeStep(1) \/ UploadStep(1) \/ UploadNext(1)

SpecOne == Init /\ [][NextOne]_vars

\* the same with the scheduling of the client: a callback or a timer that is
\* due runs; nothing obliges the server to answer
FairOne ==
  /\ SpecOne
  /\ WF_vars(OnMutateApply(1))
  /\ WF_vars(RetryMutation(1))
  /\ WF_vars(OnSuccess(1))
  /\ WF_vars(OnError(1))
  /\ WF_vars(UploadTimeout(1))
  /\ WF_vars(UploadRetry(1))
  /\ WF_vars(UploadNext(1))

\* ------------------------------------------------------------- properties
\* the step in which the onError / the onSuccess of mutation m runs
OnErrorStep(m) ==
  muts[m].pc = "responded" /\ muts'[m].pc = "done" /\ muts'[m].resp = "err"

OnSuccessStep(m) ==
  muts[m].pc = "responded" /\ muts'[m].pc = "done" /\ muts'[m].resp = "ok"

\* the ids of the entities cached under key k: the claims of the list; the
\* items of the claim and their attachments
CachedIds(k) ==
  IF k = "list" THEN Ids(cache.list.list)
  ELSE Ids(cache.claim.list)
         \cup UNION {Ids(cache.claim.list[i].attachments) : i \in 1..Len(cache.claim.list)}

\* the optimistic change of mutation mr is present in the cached value v
Present(mr, v) ==
  /\ v.def
  /\ CASE mr.kind = "createClaim" -> Ids(mr.temps) \subseteq Ids(v.list)
       [] mr.kind = "addAttachments" ->
            Ids(mr.temps) \subseteq Ids(AttachmentsOf(v.list, mr.id))
       [] OTHER -> Optimistic(mr, v, mr.temps) = v

\* C1: a hook run with no other mutation and no read in flight on its key
\* (the value onMutate snapshots is then the value held before onMutate):
\* when mutationFn rejects, the cache value under the hook's key after
\* onError equals that value, also when the entry was absent or an empty list.
C1_RollbackRestoresPrior ==
  [][\A m \in Muts :
       (OnErrorStep(m) /\ muts[m].alone) =>
         cache'[Key(muts[m].kind)] = muts[m].snapshot]_vars

\* C2: immediately after the onSuccess of a create mutation the cached list
\* holds the server-returned entity exactly once and no entry with the temp-
\* id of this mutation, under any interleaving with other creates (also in the
\* same millisecond); with no other mutation in flight it holds no temp- id.
C2_ReconciledExactlyOnce ==
  [][\A m \in Muts :
       (OnSuccessStep(m) /\ muts[m].kind = "createClaim") =>
         LET l == cache'.list.list
         IN /\ Count(l, muts[m].result[1].id) = 1
            /\ Count(l, muts[m].temps[1].id) = 0
            /\ (\A o \in Muts \ {m} : ~InFlight(o)) =>
                 \A i \in 1..Len(l) : ~IsTemp(l[i].id)]_vars

\* C3: the onSuccess of a useAddAttachments mutation removes from the cache
\* only the temp- attachments this mutation inserted: every other attachment
\* of the item, the temp- attachments of a still pending upload included,
\* and every other item stay as they were.
C3_OnlyOwnTempsRemoved ==
  [][\A m \in Muts :
       (OnSuccessStep(m) /\ muts[m].kind = "addAttachments") =>
         LET before == AttachmentsOf(cache.claim.list, muts[m].id)
             after == AttachmentsOf(cache'.claim.list, muts[m].id)
         IN /\ \A i \in 1..Len(before) :
                 before[i].id \notin Ids(muts[m].temps) =>
                   \E j \in 1..Len(after) : after[j] = before[i]
            /\ Len(cache'.claim.list) = Len(cache.claim.list)
            /\ \A i \in 1..Len(cache.claim.list) :
                 cache.claim.list[i].id # muts[m].id =>
                   cache'.claim.list[i] = cache.claim.list[i]]_vars

\* C4: once a mutation that inserted temporary entities has settled, no
\* entity with one of its temp- ids is cached under its key, in every later
\* state.
C4_SettledTempGone ==
  \A m \in Muts :
    muts[m].pc = "done" =>
      \A i \in 1..Len(muts[m].temps) :
        muts[m].temps[i].id \notin CachedIds(Key(muts[m].kind))

C6_NoStaleReadLands ==
  [][\A k \in Keys :
       (q[k].st = "fetching" /\ q'[k].st = "idle" /\ cache'[k] # cache[k]) =>
         ~q[k].stale]_vars

\* C7: onMutate runs as one atomic step: while a mutation is between the
\* first and the last cache operation of its onMutate, no query starts or
\* completes, no cache entry changes and no other mutation callback runs.
C7_OnMutateAtomic ==
  [][\A m \in Muts :
       (muts[m].pc = "onMutate" /\ muts'[m].pc = "onMutate") =>
         /\ q' = q
         /\ cache' = cache
         /\ \A o \in Muts : muts'[o].pc = muts[o].pc]_vars

\* C8: no request on its way to the API carries an id with the temp- prefix.
C8_NoTempIdSent ==
  \A id \in RequestIds : ~IsTemp(id)

\* C9: every mutation whose mutationFn rejects adds exactly one error
\* notification to the toast list, whatever the hook and the page.
C9_OneErrorToast ==
  [][\A m \in Muts :
       OnErrorStep(m) =>
         /\ Len(toasts') = Len(toasts) + 1
         /\ toasts'[Len(toasts')].type = "error"]_vars

\* C10: every mutation that has applied its optimistic write eventually
\* reaches onSuccess or onError, with fairness on the client's steps and
\* timers only.
C10_EventuallySettles ==
  \A m \in Muts : (muts[m].pc = "inflight") ~> (muts[m].pc = "done")

\* C11: for one invocation the executor runs mutationFn at most once: when
\* mutationFn has rejected, the executor goes to onError and does not send
\* the request of mutationFn again.
C11_NoExecutorRetry ==
  [][\A m \in Muts : Rejected(muts[m]) => muts'[m].pc # "inflight"]_vars

\* the entries of the cached collection that onSuccess of mr reconciles: the
\* claims of the list; the attachments of the item of an upload
CollectionOf(mr, v) ==
  IF mr.kind = "createClaim" THEN v.list ELSE AttachmentsOf(v.list, mr.id)

\* C12: when at onSuccess time the cached collection holds no entry with a
\* temporary id of the mutation, onSuccess of useCreateClaim and of
\* useAddAttachments leaves the cached value equal to what it was.
C12_AbsentTempNoOp ==
  [][\A m \in Muts :
       ( /\ OnSuccessStep(m)
         /\ muts[m].kind \in {"createClaim", "addAttachments"}
         /\ Ids(muts[m].temps) \cap Ids(CollectionOf(muts[m], cache[Key(muts[m].kind)])) = {} ) =>
         cache'[Key(muts[m].kind)] = cache[Key(muts[m].kind)]]_vars

\* C13: every blob URL that useAddAttachments.onMutate created for a
\* temporary attachment is revoked exactly once and only when the mutation
\* settles, by onSuccess and by onError alike: not revoked while the
\* mutation is pending, revoked once when it is settled.
C13_BlobsRevokedOnce ==
  \A m \in Muts :
    muts[m].kind = "addAttachments" =>
      \A i \in 1..Len(muts[m].temps) :
        LET u == muts[m].temps[i].url
        IN IF muts[m].pc = "done"
           THEN u \in DOMAIN revoked /\ revoked[u] = 1
           ELSE u \notin DOMAIN revoked

\* one upload has settled by onSuccess and an overlapping one by onError
C13_Witness ==
  /\ muts[1].kind = "addAttachments" /\ muts[1].pc = "done" /\ muts[1].temps # <<>>
  /\ muts[2].kind = "addAttachments" /\ muts[2].pc = "done" /\ muts[2].temps # <<>>
  /\ {muts[1].resp, muts[2].resp} = {"ok", "err"}

\* C14: for every invocation exactly one of onSuccess and onError runs, and
\* once: a mutation settles only by the callback that matches the outcome of
\* mutationFn (onSuccess with its reconciling write after it resolved, onError
\* with its rollback after it rejected), a settled mutation runs no callback
\* again, and after every answer the executor goes on: to the callback, or to
\* the next request of mutationFn.
C14_ExactlyOneCallback ==
  /\ [][\A m \in Muts :
          LET k == Key(muts[m].kind)
          IN /\ muts[m].pc = "done" => muts'[m] = muts[m]
             /\ (muts[m].pc # "done" /\ muts'[m].pc = "done") =>
                  /\ muts[m].pc = "responded"
                  /\ \/ /\ muts[m].resp = "ok"
                        /\ muts'[m].resp = "ok"
                        /\ cache'[k] = SetQueryData(cache[k], Reconciled(muts[m], cache[k]))
                     \/ /\ muts[m].resp \in {"err", "err4", "timeout"}
                        /\ muts'[m].resp = "err"
                        /\ cache'[k] = Rollback(k, muts[m].snapshot)]_vars
  /\ \A m \in Muts :
       (muts[m].pc = "responded") ~> (muts[m].pc \in {"done", "inflight"})

\* a mutation has settled by onError after the executor's retry
C14_Witness ==
  /\ muts[1].pc = "done"
  /\ muts[1].resp = "err"
  /\ muts[1].kind # "none"

\* the hooks that have an onMutate (useCreateItem has none)
HasOnMutate(kind) == kind \notin {"none", "createItem"}

\* C15: for every invocation of a hook with an onMutate the request of
\* mutationFn is issued only after onMutate has cancelled the reads in flight
\* on the key, taken the snapshot of the cached value and written the
\* optimistic value: the first request leaves in the step that completes
\* onMutate, and onMutate has begun by cancelling the reads.
C15_RequestAfterOnMutate ==
  [][\A m \in Muts :
       LET k == Key(muts'[m].kind)
       IN /\ (HasOnMutate(muts'[m].kind) /\ muts[m].pc = "idle" /\ muts'[m].pc # "idle") =>
               /\ muts'[m].pc = "onMutate"
               /\ q'[k].st = "idle"
          /\ (HasOnMutate(muts'[m].kind) /\ muts[m].pc \notin {"inflight", "responded"}
                /\ muts'[m].pc = "inflight") =>
               /\ muts[m].pc = "onMutate"
               /\ muts'[m].snapshot = cache[k]
               /\ cache'[k] = SetQueryData(cache[k], Optimistic(muts[m], cache[k], muts'[m].temps))]_vars

\* the request of an update is on its way and the cache holds the optimistic
\* value, which differs from the snapshot
C15_Witness ==
  /\ muts[1].kind = "updateItem"
  /\ muts[1].pc = "inflight"
  /\ muts[1].snapshot.def
  /\ cache.claim # muts[1].snapshot
  /\ cache.claim = UpdateItemOptimistic(muts[1].snapshot, muts[1].id, muts[1].title)

\* C16: an item created through useCreateItem: while its request is not
\* answered yet, the head of the claim's cached items is a temp- entry with
\* the submitted title; after onSuccess the head is the item the server
\* returned and no cached item has a temp- id.
C16_CreateItemOptimistic ==
  /\ [](\A m \in Muts :
          (muts[m].kind = "createItem" /\ muts[m].pc = "inflight" /\ muts[m].failureCount = 0) =>
            /\ cache.claim.def
            /\ cache.claim.list # <<>>
            /\ IsTemp(cache.claim.list[1].id)
            /\ cache.claim.list[1].title = muts[m].title)
  /\ [][\A m \in Muts :
          (OnSuccessStep(m) /\ muts[m].kind = "createItem") =>
            /\ cache'.claim.list # <<>>
            /\ cache'.claim.list[1] = muts[m].result[1]
            /\ \A id \in Ids(cache'.claim.list) : ~IsTemp(id)]_vars

\* C20: saving the draft of the claim detail page: the save puts the
\* submitted title into the draft and marks it as being saved; when the
\* create fails, the draft stays as it is (in the displayed list, with that
\* content), the edit mode stays, the cached claim is unchanged and
\* savingItemId is null again; there is never more than one draft, and a
\* draft is never replaced by another one while it is present.
C20_DraftKeptOnFailure ==
  /\ [](Len(ui.draft) <= 1)
  /\ [][\A m \in Muts :
          /\ (muts[m].pc = "idle" /\ muts'[m].kind = "createItem") =>
               /\ ui'.draft = <<[id |-> muts'[m].id, title |-> muts'[m].title]>>
               /\ ui'.saving = muts'[m].id
               /\ ui'.editing = ui.editing
          /\ (OnErrorStep(m) /\ muts[m].kind = "createItem" /\ muts[m].mounted) =>
               /\ ui'.draft = ui.draft
               /\ ui'.editing = ui.editing
               /\ ui'.saving = NoId
               /\ cache'.claim = cache.claim
          /\ (ui.draft # <<>> /\ ui'.draft # <<>>) => ui'.draft[1].id = ui.draft[1].id]_vars

\* the create of the draft has failed: the draft is displayed in edit mode
\* with the submitted title, nothing is being saved, and the server has no
\* item of that title
C20_Witness ==
  /\ muts[1].kind = "createItem" /\ muts[1].pc = "done" /\ muts[1].resp = "err"
  /\ ui.page = "detail"
  /\ ui.draft # <<>>
  /\ ui.draft[1].title = "t2"
  /\ ui.editing = ui.draft[1].id
  /\ ui.saving = NoId
  /\ cache.claim = Some(InitItems)

\* C17: a permutation of the cached items submitted to useReorderItems with
\* the order values 0..n-1: after onMutate the cached items are in exactly
\* the requested order, with these order values, the same ids and otherwise
\* unchanged; when the server rejects the reorder, onError puts back the
\* sequence held before onMutate, equal by id, position and order value.
C17_ReorderAndRestore ==
  [][\A m \in Muts :
       LET mr == muts[m]
           old == cache.claim.list
           new == cache'.claim.list
       IN /\ ( /\ mr.kind = "reorderItems"
               /\ mr.pc = "onMutate" /\ muts'[m].pc = "inflight"
               /\ Len(mr.order) = Len(old)
               /\ Ids(mr.order) = Ids(old) ) =>
               /\ Len(new) = Len(old)
               /\ \A i \in 1..Len(new) :
                    /\ new[i].id = mr.order[i].id
                    /\ new[i].order = i - 1
                    /\ \E j \in 1..Len(old) : new[i] = [old[j] EXCEPT !.order = i - 1]
          /\ (mr.kind = "reorderItems" /\ OnErrorStep(m)) =>
               cache'.claim = mr.snapshot]_vars

\* a reorder of three items, one of them created just before, has been
\* rejected and rolled back while the cache held the requested order
C17_Witness ==
  /\ muts[2].kind = "reorderItems" /\ muts[2].pc = "done" /\ muts[2].resp = "err"
  /\ muts[1].kind = "createItem" /\ muts[1].pc = "done" /\ muts[1].resp = "ok"
  /\ cache.claim.def
  /\ Len(cache.claim.list) = 3
  /\ cache.claim.list[1].id = RealId(100)

\* the step in which the rest of onMutate of mutation m runs
OnMutateStep(m) == muts[m].pc = "onMutate" /\ muts'[m].pc = "inflight"

\* C18: mutations on different cache keys: the onMutate, onSuccess and
\* onError of a mutation on one key never change the value stored under
\* another key, so a rollback on one key leaves the other key's value, its
\* pending optimistic state included, as it was.
C18_OtherKeyUntouched ==
  [][\A m \in Muts :
       (OnMutateStep(m) \/ OnSuccessStep(m) \/ OnErrorStep(m)) =>
         \A k \in Keys \ {Key(muts[m].kind)} : cache'[k] = cache[k]]_vars

\* a create on ['claims'] has been rolled back while an item mutation on
\* ['claims', c1] is in flight with its optimistic state in the cache
C18_Witness ==
  \E a, b \in Muts :
    /\ muts[a].kind = "createClaim" /\ muts[a].pc = "done" /\ muts[a].resp = "err"
    /\ muts[b].kind \in {"updateItem", "deleteItem", "addAttachments"}
    /\ muts[b].pc = "inflight"
    /\ Present(muts[b], cache.claim)
    /\ cache.claim # ServerValue("claim")

\* the ids a mutation may take out of the collection of its key: those of
\* its own temporary entries and the one it was asked to delete
OwnIds(mr) ==
  Ids(mr.temps) \cup (IF mr.kind \in {"deleteItem", "tplDelete"} THEN {mr.id} ELSE {})

\* C19: a cache write made by an onMutate or by an onSuccess is based on the
\* value that is cached at the instant of the write, so it discards no write
\* of another mutation: every entry that is in the collection of the key
\* before the write, other than the mutation's own temporary entries and the
\* entry it deletes, is in the collection after it.
C19_NoLostUpdate ==
  [][\A m \in Muts :
       (OnMutateStep(m) \/ OnSuccessStep(m)) =>
         LET k == Key(muts[m].kind)
         IN cache[k].def =>
              /\ cache'[k].def
              /\ (Ids(cache[k].list) \ OwnIds(muts'[m])) \subseteq Ids(cache'[k].list)]_vars
\* the storage backend a stored file's URL points to
HeldBy(url) ==
  IF Includes(url, <<"r2.dev">>) THEN "r2"
  ELSE IF Includes(url, <<"res.cloudinary.com">>) THEN "cloudinary"
  ELSE "unknown"

\* the step in which the DELETE route handles a request
DeleteHandled ==
  /\ store' # store
  /\ store'.req # <<>>
  /\ store'.req[1].route = "DELETE"

\* C21: isR2File is true for the public id of every attachment the POST
\* route stored in R2 and false for that of every attachment it stored in
\* Cloudinary, so the storage delete of the DELETE route goes to the backend
\* that holds the file.
C21_DeleteReachesHolder ==
  /\ [](\A i \in 1..Len(store.rows) :
          isR2File(store.rows[i].publicId) <=> HeldBy(store.rows[i].url) = "r2")
  /\ [][\A i \in 1..Len(store.rows) :
          /\ DeleteHandled
          /\ store'.req[1].attachmentId = store.rows[i].id
          /\ store'.status # 404
          => /\ store'.call # <<>>
             /\ store'.call[1].key = store.rows[i].publicId
             /\ store'.call[1].backend = HeldBy(store.rows[i].url)]_vars
\* mutation m is useAddAttachments and its fetch has ended without a
\* response that uploadFileWithRetry returns: a 5xx answer or a throw
UploadAttemptFailed(m) ==
  /\ muts[m].kind = "addAttachments"
  /\ muts[m].pc = "responded"
  /\ muts[m].resp \in {"err", "timeout"}

\* C22: uploadFileWithRetry makes at most MAX_RETRIES = 3 fetch attempts and
\* always comes to an end: after a failed attempt it either makes the next
\* attempt, if fewer than three were made, or throws, after the third; it
\* never hands a 5xx response to its caller (which would go on with the next
\* file or resolve) and never makes a fourth attempt.
C22_UploadAttemptsBounded ==
  /\ [](\A m \in Muts : muts[m].kind = "addAttachments" => muts[m].attempt <= MAX_RETRIES)
  /\ [][\A m \in Muts :
          UploadAttemptFailed(m) =>
            \/ /\ muts'[m].pc = muts[m].pc
               /\ muts'[m].attempt = muts[m].attempt
               /\ muts'[m].failureCount = muts[m].failureCount
            \/ /\ muts[m].attempt < MAX_RETRIES
               /\ muts'[m].pc = "inflight"
               /\ muts'[m].attempt = muts[m].attempt + 1
               /\ muts'[m].failureCount = muts[m].failureCount
               /\ muts'[m].result = muts[m].result
            \/ /\ muts[m].attempt = MAX_RETRIES
               /\ \/ OnErrorStep(m)
                  \/ /\ muts'[m].pc = "inflight"
                     /\ muts'[m].failureCount = muts[m].failureCount + 1
                     /\ muts'[m].attempt = 1]_vars
  /\ (muts[1].kind = "addAttachments" /\ muts[1].pc \in {"inflight", "responded"})
       ~> (muts[1].pc = "done")

\* the third attempt of an upload has been answered with a 5xx
C22_Witness ==
  /\ UploadAttemptFailed(1)
  /\ muts[1].attempt = MAX_RETRIES
  /\ muts[1].resp = "err"
\* the fetch of mutation m has been answered with a response that
\* uploadFileWithRetry returns: ok or 4xx
UploadAnswered(m) ==
  /\ muts[m].kind = "addAttachments"
  /\ muts[m].pc = "responded"
  /\ muts[m].resp \in {"ok", "err4"}

\* C23: uploadFileWithRetry returns the first ok or 4xx response and makes no
\* further attempt for it; it makes another attempt only after a 5xx
\* response, a thrown fetch or a timeout; a request answered with a client
\* error is never sent again.
C23_ClientErrorsNotRetried ==
  [][\A m \in Muts :
       /\ (muts[m].kind = "addAttachments" /\ muts'[m].attempt = muts[m].attempt + 1
              /\ muts[m].attempt >= 1)
            => muts[m].resp \in {"err", "timeout"}
       /\ UploadAnswered(m) => muts'[m].attempt \in {muts[m].attempt, 1, 0}
       /\ (UploadAnswered(m) /\ muts[m].resp = "err4") => muts'[m].pc # "inflight"]_vars

\* the two function-level parts of C23 alone: what uploadFileWithRetry does
\* within one call
C23_WithinOneCall ==
  [][\A m \in Muts :
       /\ (muts[m].kind = "addAttachments" /\ muts'[m].attempt = muts[m].attempt + 1
              /\ muts[m].attempt >= 1)
            => muts[m].resp \in {"err", "timeout"}
       /\ UploadAnswered(m) => muts'[m].attempt \in {muts[m].attempt, 1, 0}]_vars
\* C24: in the DELETE route a storage delete that throws does not stop the
\* request: prisma.attachment.delete is still called, and unless that throws
\* the row of the attachment is deleted and the response is a success; when
\* no attachment has the id, the item and the claim of the URL, the response
\* is 404 and neither the storages nor the table change.
C24_DeleteToleratesStorage ==
  [][DeleteHandled =>
       LET r == store'.req[1]
           found == FindRow(r.claimId, r.itemId, r.attachmentId)
       IN IF found = <<>>
          THEN /\ store'.status = 404
               /\ store'.rows = store.rows
               /\ store'.r2 = store.r2
               /\ store'.cloud = store.cloud
               /\ store'.call = <<>>
               /\ store'.db = "none"
          ELSE /\ store'.call # <<>>
               /\ store'.db \in {"ok", "threw"}
               /\ store'.db = "ok" =>
                     /\ store'.status = 200
                     /\ store'.rows = SelectSeq(store.rows, LAMBDA x : x.id # r.attachmentId)
               /\ store'.db = "threw" =>
                     /\ store'.status = 500
                     /\ store'.rows = store.rows
               /\ store'.call[1].threw =>
                     /\ store'.r2 = store.r2
                     /\ store'.cloud = store.cloud]_vars

\* a storage delete has thrown, the row is gone and the route has answered
\* with a success
C24_Witness ==
  /\ store.req # <<>>
  /\ store.req[1].route = "DELETE"
  /\ store.call # <<>>
  /\ store.call[1].threw
  /\ store.status = 200
  /\ \A i \in 1..Len(store.rows) : store.rows[i].id # store.req[1].attachmentId

\* a request for an attachment that is not there has been answered with 404
C24_WitnessNotFound ==
  /\ store.req # <<>>
  /\ store.req[1].route = "DELETE"
  /\ store.status = 404
  /\ store.rows # <<>>
\* the run makes no change outside the script: nothing is downloaded,
\* uploaded or updated, the table and the storages stay as they are
NoEffect ==
  /\ mig'.downloads = {} /\ mig'.uploads = {} /\ mig'.updates = {}
  /\ store' = store

\* C25: with --dry-run the script downloads nothing, uploads nothing and
\* updates no row, for every attachment whatever its URL and MIME type; with
\* or without --dry-run no file leaves R2 or Cloudinary.
C25_DryRunChangesNothing ==
  [][/\ mig'.dry => NoEffect
     /\ store.r2 \subseteq store'.r2
     /\ store.cloud \subseteq store'.cloud]_vars

\* a dry run has gone over an image on R2 that a real run would migrate
C25_Witness ==
  /\ mig.dry
  /\ mig.pc = "done"
  /\ mig.migrated > 0

\* the step that processes the attachment a of the list
Processes(a) ==
  /\ mig.pc = "run"
  /\ mig'.i = mig.i + 1
  /\ mig.list[mig.i + 1] = a

\* C26: an attachment whose row a run has updated is skipped by every later
\* run; a run that follows a real run without failures downloads, uploads
\* and updates nothing; a failure on one attachment does not keep the run
\* from the following ones; at the end total = migrated + skipped + failed.
C26_RerunSkipsMigrated ==
  /\ [][\A j \in 1..Len(mig.list) :
          (Processes(mig.list[j]) /\ mig.list[j].id \in mig.moved) =>
            /\ mig'.skipped = mig.skipped + 1
            /\ store' = store]_vars
  /\ []((mig.prev # <<>> /\ ~mig.prev[1].dry /\ mig.prev[1].failed = 0) =>
          (mig.downloads = {} /\ mig.uploads = {} /\ mig.updates = {}))
  /\ [][(mig.pc = "run" /\ mig'.failed > mig.failed) =>
          /\ mig'.i = mig.i + 1
          /\ mig'.pc = IF mig'.i < mig.total THEN "run" ELSE "done"]_vars
  /\ [](mig.pc = "done" => mig.total = mig.migrated + mig.skipped + mig.failed)
  /\ [](mig.pc = "run" => mig.i = mig.migrated + mig.skipped + mig.failed)

\* a second run has skipped an attachment that the first run had migrated,
\* the first run having failed on another attachment and gone on
C26_Witness ==
  /\ mig.runs = 2
  /\ mig.pc = "done"
  /\ mig.prev # <<>>
  /\ mig.prev[1].failed > 0
  /\ mig.moved # {}
  /\ mig.skipped > 0
\* the ids of the items the server holds for the claim and of their
\* attachments
ServerIds ==
  Ids(srv.items) \cup UNION {Ids(srv.items[i].attachments) : i \in 1..Len(srv.items)}

\* every mutation that was invoked has settled, and one was
AllSettled ==
  /\ \A m \in Muts : muts[m].pc \in {"idle", "done"}
  /\ \E m \in Muts : muts[m].pc = "done"

\* C27: once every mutation on the claim's key has settled, whatever the
\* interleaving of the overlapping mutations and whichever of them succeeded,
\* the ids of the items and attachments in the cache are those the server
\* holds.
C27_SettledCacheMatchesServer ==
  (AllSettled /\ cache.claim.def) => CachedIds("claim") = ServerIds

\* C28: when useAddAttachments rejects for a batch, no file of the batch is
\* on the server: after the rollback of its onError the attachments cached
\* for the item are the attachments the server holds for it.
C28_RejectedBatchStoredNothing ==
  [][\A m \in Muts :
       (OnErrorStep(m) /\ muts[m].kind = "addAttachments") =>
         Ids(AttachmentsOf(cache'.claim.list, muts[m].id))
           = Ids(AttachmentsOf(srv'.items, muts[m].id))]_vars

\* C29: no attachment in the cache has a blob: URL that was revoked.
C29_NoRevokedBlobInCache ==
  cache.claim.def =>
    \A i \in 1..Len(cache.claim.list) :
      \A j \in 1..Len(cache.claim.list[i].attachments) :
        cache.claim.list[i].attachments[j].url \notin DOMAIN revoked
====
